---- MODULE Spec2Model ----
(***************************************************************************)
(* A model of deps.rs' dependency analyzer (engine/machines/analyzer.rs)   *)
(* and of its managed registry index (utils/index.rs).                     *)
(*                                                                         *)
(* Option<T> is modelled as a sequence: None is <<>>, Some(x) is <<x>>.    *)
(* Versions are semver versions without build metadata (the order and the  *)
(* equality the analyzer uses do not look at build metadata).              *)
(***************************************************************************)
EXTENDS Integers, Sequences, FiniteSets, Bags, TLC

\* ------------------------------------------------------------------ bounds

\* The longest release sequence handed to one process() call.
MaxBatch == 2

\* The number of releases handed to process() over an analyzer's life.
MaxProcessed == 3

\* The last instant of the managed index's clock.
MaxTime == 5

\* ------------------------------------------------------------------ values

None == <<>>

Some(x) == <<x>>

IsSome(o) == o # <<>>

Unwrap(o) == o[1]

Ver(ma, mi, pa, pre) == [major |-> ma, minor |-> mi, patch |-> pa, pre |-> pre]

\* The versions releases and constraints are drawn from: 0.10.0, 0.10.1-alpha,
\* 0.10.1 and 0.11.0 (those of the analyzer's tests).
Versions ==
  { Ver(0, 10, 0, ""), Ver(0, 10, 1, "alpha"), Ver(0, 10, 1, ""), Ver(0, 11, 0, "") }

Names == {"hyper", "libc"}

Kinds == {"main", "dev", "build"}

Release(name, version, yanked) ==
  [name |-> name, version |-> version, yanked |-> yanked]

\* CrateRelease: the sub-dependencies of a release are never read by the
\* analyzer. Every version of every name, and two yanked releases of hyper.
Releases ==
  {Release(n, v, FALSE) : n \in Names, v \in Versions}
    \cup {Release("hyper", Ver(0, 10, 1, ""), TRUE), Release("hyper", Ver(0, 11, 0, ""), TRUE)}

IsPrereleaseNever(ver) == FALSE

\* semver: Version::is_prerelease
IsPrerelease(ver) == ver.pre # ""

\* semver: Ord for Version. Major, minor, patch, then the pre-release part,
\* where a version with a pre-release part is below the one without. The
\* universe holds one pre-release identifier, so two non-empty parts are equal.
VersionLess(a, b) ==
  \/ a.major < b.major
  \/ a.major = b.major /\ a.minor < b.minor
  \/ a.major = b.major /\ a.minor = b.minor /\ a.patch < b.patch
  \/ a.major = b.major /\ a.minor = b.minor /\ a.patch = b.patch
       /\ a.pre # "" /\ b.pre = ""

\* A caret requirement ^base (VersionReq with one caret comparator).
Caret(base) == [op |-> "^", base |-> base]

\* semver: VersionReq::matches for a caret comparator. A pre-release version
\* satisfies it only when the comparator names the same major.minor.patch with
\* a pre-release part of its own.
Matches(req, ver) ==
  LET b == req.base IN
    /\ ~VersionLess(ver, b)
    /\ ver.major = b.major
    /\ IF b.major > 0 THEN TRUE
       ELSE IF b.minor > 0 THEN ver.minor = b.minor
       ELSE ver.minor = 0 /\ ver.patch = b.patch
    /\ ver.pre # "" =>
         /\ b.pre # ""
         /\ ver.major = b.major /\ ver.minor = b.minor /\ ver.patch = b.patch

\* AnalyzedDependency::new
AnalyzedDependencyNew(req) ==
  [required |-> req, latest_that_matches |-> None, latest |-> None,
   vulnerabilities |-> <<>>]

\* AnalyzedDependencies::new: one entry per declared dependency of each kind.
AnalyzedDependenciesNew(crateDeps) ==
  [k \in Kinds |->
     [n \in DOMAIN crateDeps[k] |-> AnalyzedDependencyNew(crateDeps[k][n])]]

NoDeps == [n \in {} |-> Caret(Ver(0, 10, 0, ""))]

\* The declared dependencies (CrateDeps) an analyzer is constructed with: the
\* one of the tests, and one with hyper in every kind under three constraints.
DeclaredChoices ==
  { [main  |-> [n \in {"hyper"} |-> Caret(Ver(0, 10, 0, ""))],
     dev   |-> NoDeps,
     build |-> NoDeps],
    [main  |-> [n \in {"hyper"} |-> Caret(Ver(0, 11, 0, ""))],
     dev   |-> [n \in {"hyper", "libc"} |-> Caret(Ver(0, 10, 1, "alpha"))],
     build |-> [n \in {"hyper"} |-> Caret(Ver(0, 10, 0, ""))]] }

\* ------------------------------------------------------------------ state

VARIABLES
  deps,          \* DependencyAnalyzer.deps (returned by value by finalize)
  advisory_db,   \* DependencyAnalyzer.advisory_db
  phase,         \* "Accumulating" while the analyzer is owned by its caller,
                 \* "Finalized" once finalize(self) has consumed it
  outcome,       \* of finalize: "none", "returned" or "panicked"
  declared,      \* history: the CrateDeps given to new()
  processed,     \* history: the bag of all releases handed to process()
  last,          \* history: the last operation and its argument
  prev,          \* history: deps before the last operation
  index,         \* ManagedIndex.index: the revision of the local registry index
  update_interval, \* ManagedIndex.update_interval: the Interval's period and
                 \* the deadline of its next tick
  task,          \* where refresh_at_interval stands: "created" (not called
                 \* yet), "refresh", "blocking" (awaiting spawn_blocking), "tick",
                 \* or "cancelled" (its future dropped from outside)
  in_flight,     \* the number of spawn_blocking jobs that have not completed
  now,           \* the clock
  starts,        \* history: the instant each refresh started at
  ends,          \* history: the instant each completed refresh ended at
  last_refresh   \* history: the result of the last completed offloaded job and
                 \* the index revision it started from

analyzerVars == <<deps, advisory_db, phase, outcome, declared, processed, last, prev>>

indexVars ==
  <<index, update_interval, task, in_flight, now, starts, ends, last_refresh>>

vars == <<analyzerVars, indexVars>>

\* ------------------------------------------------------------------ advisories

\* rustsec Database: a list of advisories, each for one package and the
\* versions of it that are vulnerable.
Advisory(id, package, affected) ==
  [id |-> id, package |-> package, affected |-> affected]

Db1 ==
  << Advisory("RUSTSEC-1", "hyper", {Ver(0, 10, 0, ""), Ver(0, 10, 1, "")}),
     Advisory("RUSTSEC-2", "hyper", {Ver(0, 10, 1, ""), Ver(0, 11, 0, "")}),
     Advisory("RUSTSEC-3", "libc", {Ver(0, 10, 1, "alpha")}) >>

\* The advisory_db argument of new(): Option<Arc<Database>>.
AdvisoryChoices == {None, Some(Db1)}

\* Version::to_string: the text "major.minor.patch[-pre]", as its fields.
VersionToString(ver) == <<ver.major, ver.minor, ver.patch, ver.pre>>

\* What the advisory library's parsers reject: name texts and version texts.
\* The parsers are not part of this repository; the analyzer unwraps their
\* results, so each text either parses or makes finalize panic.
ParserChoices ==
  [names : SUBSET {"libc"}, versions : SUBSET {VersionToString(Ver(0, 10, 1, "alpha"))}]

NoRejects == [names |-> {}, versions |-> {}]

Ok(x) == [ok |-> TRUE, val |-> <<x>>]

Err == [ok |-> FALSE, val |-> <<>>]

\* name.as_ref().parse::<cargo_lock::Name>()
ParseName(text, rejects) ==
  IF text \in rejects.names THEN Err ELSE Ok(text)

\* version.to_string().parse::<cargo_lock::Version>()
ParseVersion(text, rejects) ==
  IF text \in rejects.versions THEN Err
  ELSE Ok(Ver(text[1], text[2], text[3], text[4]))

\* database::Query::new().package_version(name, version)
Query(name, version) == [package |-> name, version |-> version]

\* Database::query: the advisories for the queried package that affect the
\* queried version, in database order.
DbQuery(db, query) ==
  SelectSeq(db, LAMBDA a : a.package = query.package /\ query.version \in a.affected)

\* ------------------------------------------------------------------ analyzer

RaiseOptionLastWins(current, ver) == Some(ver)

RaiseOptionIfDifferent(current, ver) ==
  IF IsSome(current)
    THEN IF Unwrap(current) # ver THEN Some(ver) ELSE current
    ELSE Some(ver)

RaiseOptionKeepLower(current, ver) ==
  IF IsSome(current)
    THEN IF VersionLess(ver, Unwrap(current)) THEN Some(ver) ELSE current
    ELSE Some(ver)

\* The update of one Option<Version> field in process_single: set it when
\* unset, replace it when the candidate is greater.
RaiseOption(current, ver) ==
  IF IsSome(current)
    THEN IF VersionLess(Unwrap(current), ver) THEN Some(ver) ELSE current
    ELSE Some(ver)

ProcessSingleSkipPre(dep, ver) ==
  IF IsPrerelease(ver) THEN dep
  ELSE [dep EXCEPT
          !.latest_that_matches =
             IF Matches(dep.required, ver) THEN RaiseOption(@, ver) ELSE @,
          !.latest = RaiseOption(@, ver)]

ProcessSingleClamped(dep, ver) ==
  LET d1 == IF Matches(dep.required, ver)
              THEN [dep EXCEPT !.latest_that_matches = RaiseOption(@, ver)]
              ELSE dep
      d2 == IF ~IsPrerelease(ver)
              THEN [d1 EXCEPT !.latest = RaiseOption(@, ver)]
              ELSE d1
  IN IF /\ IsSome(d2.latest_that_matches)
        /\ \/ d2.latest = None
           \/ VersionLess(Unwrap(d2.latest), Unwrap(d2.latest_that_matches))
       THEN [d2 EXCEPT !.latest_that_matches = d2.latest]
       ELSE d2

\* DependencyAnalyzer::process_single
ProcessSingle(dep, ver) ==
  LET d1 == IF Matches(dep.required, ver)
              THEN [dep EXCEPT !.latest_that_matches = RaiseOption(@, ver)]
              ELSE dep
  IN IF ~IsPrerelease(ver)
       THEN [d1 EXCEPT !.latest = RaiseOption(@, ver)]
       ELSE d1

ProcessKindAnyName(ds, kind, release) ==
  [ds EXCEPT ![kind] = [n \in DOMAIN @ |-> ProcessSingle(@[n], release.version)]]

\* One kind's lookup in the loop body of process: get_mut, then process_single.
ProcessKind(ds, kind, release) ==
  IF release.name \in DOMAIN ds[kind]
    THEN [ds EXCEPT ![kind][release.name] = ProcessSingle(@, release.version)]
    ELSE ds

ProcessReleaseFirstKind(ds, release) ==
  IF release.name \in DOMAIN ds["main"] THEN ProcessKind(ds, "main", release)
  ELSE IF release.name \in DOMAIN ds["dev"] THEN ProcessKind(ds, "dev", release)
  ELSE ProcessKind(ds, "build", release)

\* The loop body of process: main, then dev, then build.
ProcessRelease(ds, release) ==
  ProcessKind(ProcessKind(ProcessKind(ds, "main", release), "dev", release),
              "build", release)

KeepAll(release) == TRUE

\* The filter of process: |r| !r.yanked
NotYanked(release) == ~release.yanked

RECURSIVE ProcessLoop(_, _)
\* The for loop of process over the releases the filter keeps.
ProcessLoop(ds, releases) ==
  IF releases = <<>> THEN ds
  ELSE ProcessLoop(IF NotYanked(Head(releases))
                     THEN ProcessRelease(ds, Head(releases))
                     ELSE ds,
                   Tail(releases))

KindOrder == <<"main", "dev", "build">>

NameOrder == <<"hyper", "libc">>

QueriedLatest(dep) ==
  IF IsSome(dep.latest) THEN Unwrap(dep.latest) ELSE Unwrap(dep.latest_that_matches)

\* The version the query is built for: the latest_that_matches the filter_map
\* of process_advisory hands to the loop.
QueriedVersion(dep) == Unwrap(dep.latest_that_matches)

\* The (kind, name) pairs in the order of main.iter_mut().chain(dev).chain(build).
ChainedEntries ==
  [i \in 1..(Len(KindOrder) * Len(NameOrder)) |->
     <<KindOrder[((i - 1) \div Len(NameOrder)) + 1],
       NameOrder[((i - 1) % Len(NameOrder)) + 1]>>]

AdvisoryEntriesByLatest(ds) ==
  LET kept == SelectSeq(ChainedEntries, LAMBDA e :
                /\ e[2] \in DOMAIN ds[e[1]]
                /\ IsSome(ds[e[1]][e[2]].latest))
  IN [i \in DOMAIN kept |->
        <<kept[i][1], kept[i][2], Unwrap(ds[kept[i][1]][kept[i][2]].latest)>>]

\* main.iter_mut().chain(dev).chain(build), filter_mapped to the entries whose
\* latest_that_matches is set: (kind, name, version) in iteration order.
AdvisoryEntries(ds) ==
  LET kept == SelectSeq(ChainedEntries, LAMBDA e :
                /\ e[2] \in DOMAIN ds[e[1]]
                /\ IsSome(ds[e[1]][e[2]].latest_that_matches))
  IN [i \in DOMAIN kept |->
        <<kept[i][1], kept[i][2], QueriedVersion(ds[kept[i][1]][kept[i][2]])>>]

RECURSIVE AdvisoryLoopSkipping(_, _, _, _)
AdvisoryLoopSkipping(ds, db, rejects, entries) ==
  IF entries = <<>> THEN [panicked |-> FALSE, deps |-> ds]
  ELSE
    LET kind    == Head(entries)[1]
        n       == Head(entries)[2]
        name    == ParseName(n, rejects)
        version == ParseVersion(VersionToString(Head(entries)[3]), rejects)
    IN IF ~name.ok \/ ~version.ok
         THEN AdvisoryLoopSkipping(ds, db, rejects, Tail(entries))
       ELSE
         LET query == Query(Unwrap(name.val), Unwrap(version.val))
             vulnerabilities == IF IsSome(db) THEN DbQuery(Unwrap(db), query) ELSE <<>>
             ds1 == IF IsSome(db) /\ vulnerabilities # <<>>
                      THEN [ds EXCEPT ![kind][n].vulnerabilities = vulnerabilities]
                      ELSE ds
         IN AdvisoryLoopSkipping(ds1, db, rejects, Tail(entries))

RECURSIVE AdvisoryLoop(_, _, _, _)
\* The for loop of process_advisory. A failed parse is unwrapped: a panic.
AdvisoryLoop(ds, db, rejects, entries) ==
  IF entries = <<>> THEN [panicked |-> FALSE, deps |-> ds]
  ELSE
    LET kind    == Head(entries)[1]
        n       == Head(entries)[2]
        name    == ParseName(n, rejects)
        version == ParseVersion(VersionToString(Head(entries)[3]), rejects)
    IN IF ~name.ok \/ ~version.ok THEN [panicked |-> TRUE, deps |-> ds]
       ELSE
         LET query == Query(Unwrap(name.val), Unwrap(version.val))
             vulnerabilities == IF IsSome(db) THEN DbQuery(Unwrap(db), query) ELSE <<>>
             ds1 == IF IsSome(db) /\ vulnerabilities # <<>>
                      THEN [ds EXCEPT ![kind][n].vulnerabilities = vulnerabilities]
                      ELSE ds
         IN AdvisoryLoop(ds1, db, rejects, Tail(entries))

ProcessAdvisoryPruning(ds, db, rejects) ==
  LET r == AdvisoryLoop(ds, db, rejects, AdvisoryEntries(ds))
  IN [r EXCEPT !.deps =
        [k \in Kinds |->
           [n \in {m \in DOMAIN r.deps[k] : IsSome(r.deps[k][m].latest_that_matches)} |->
              r.deps[k][n]]]]

\* DependencyAnalyzer::process_advisory
ProcessAdvisory(ds, db, rejects) ==
  AdvisoryLoop(ds, db, rejects, AdvisoryEntries(ds))

\* The release sequences of at most n releases, n capped by MaxBatch.
Batches(n) ==
  UNION {[1..k -> Releases] : k \in 0..(IF n < MaxBatch THEN n ELSE MaxBatch)}

RECURSIVE BagOfSeq(_)
BagOfSeq(s) ==
  IF s = <<>> THEN EmptyBag ELSE SetToBag({Head(s)}) (+) BagOfSeq(Tail(s))

AlwaysUsable == TRUE

\* process(&mut self) and finalize(self) need an analyzer the caller still
\* owns: finalize takes it by value.
Usable == phase = "Accumulating"

\* DependencyAnalyzer::new
AnalyzerNew(crateDeps, db) ==
  /\ declared = crateDeps
  /\ deps = AnalyzedDependenciesNew(crateDeps)
  /\ advisory_db = db
  /\ phase = "Accumulating"
  /\ outcome = "none"
  /\ processed = EmptyBag
  /\ last = [op |-> "new", batch |-> <<>>, rejects |-> NoRejects]
  /\ prev = deps

\* DependencyAnalyzer::process
Process(releases) ==
  /\ Usable
  /\ BagCardinality(processed) + Len(releases) <= MaxProcessed
  /\ deps' = ProcessLoop(deps, releases)
  /\ processed' = processed (+) BagOfSeq(releases)
  /\ last' = [op |-> "process", batch |-> releases, rejects |-> NoRejects]
  /\ prev' = deps
  /\ UNCHANGED <<advisory_db, phase, outcome, declared>>
  /\ UNCHANGED indexVars

\* DependencyAnalyzer::finalize
Finalize(rejects) ==
  /\ Usable
  /\ LET r == ProcessAdvisory(deps, advisory_db, rejects) IN
       /\ deps' = r.deps
       /\ outcome' = IF r.panicked THEN "panicked" ELSE "returned"
  /\ phase' = "Finalized"
  /\ last' = [op |-> "finalize", batch |-> <<>>, rejects |-> rejects]
  /\ prev' = deps
  /\ UNCHANGED <<advisory_db, declared, processed>>
  /\ UNCHANGED indexVars

\* ------------------------------------------------------------------ index

\* The update_interval argument of ManagedIndex::new, in clock units.
Periods == {2, 3}

\* tokio::time::interval(period): the first tick is due at once, at the
\* instant the Interval is created.
IntervalNew(period, at) == [period |-> period, deadline |-> at]

\* ManagedIndex::new
ManagedIndexNew(period) ==
  /\ index = 0
  /\ update_interval = IntervalNew(period, 0)
  /\ task = "created"
  /\ in_flight = 0
  /\ now = 0
  /\ starts = <<>>
  /\ ends = <<>>
  /\ last_refresh = [result |-> "none", index_before |-> 0]

\* What the offloaded retrieve_or_update may come back with: the index
\* updated, an error of the retrieval, or the failure of the offloaded job.
RefreshResults == {"updated", "error", "join_error"}

\* refresh_at_interval is called: the loop is entered.
StartTask ==
  /\ task = "created"
  /\ task' = "refresh"
  /\ UNCHANGED <<index, update_interval, in_flight, now, starts, ends, last_refresh>>
  /\ UNCHANGED analyzerVars

RefreshBeginDetached ==
  /\ task = "refresh"
  /\ in_flight' = in_flight + 1
  /\ starts' = Append(starts, now)
  /\ task' = "tick"
  /\ UNCHANGED <<index, update_interval, now, ends, last_refresh>>
  /\ UNCHANGED analyzerVars

\* refresh, up to its await: the handle is cloned and retrieve_or_update is
\* handed to spawn_blocking.
RefreshBegin ==
  /\ task = "refresh"
  /\ in_flight' = in_flight + 1
  /\ starts' = Append(starts, now)
  /\ task' = "blocking"
  /\ UNCHANGED <<index, update_interval, now, ends, last_refresh>>
  /\ UNCHANGED analyzerVars

\* retrieve_or_update, run by the offloaded job: the index moves to a new
\* revision when it succeeds and stays as it was when it fails.
RetrieveOrUpdate(revision, result) ==
  IF result = "updated" THEN revision + 1 ELSE revision

RefreshEndPropagating(result) ==
  /\ task = "blocking"
  /\ in_flight > 0
  /\ in_flight' = in_flight - 1
  /\ index' = RetrieveOrUpdate(index, result)
  /\ ends' = Append(ends, now)
  /\ last_refresh' = [result |-> result, index_before |-> index]
  /\ task' = IF result = "updated" THEN "tick" ELSE "returned"
  /\ UNCHANGED <<update_interval, now, starts>>
  /\ UNCHANGED analyzerVars

\* The offloaded job completes and refresh returns: the result is dropped
\* (let _ = ...), and the loop goes on to wait for the tick.
RefreshEnd(result) ==
  /\ task = "blocking"
  /\ in_flight > 0
  /\ in_flight' = in_flight - 1
  /\ index' = RetrieveOrUpdate(index, result)
  /\ ends' = Append(ends, now)
  /\ last_refresh' = [result |-> result, index_before |-> index]
  /\ task' = "tick"
  /\ UNCHANGED <<update_interval, now, starts>>
  /\ UNCHANGED analyzerVars

TickThenReturn ==
  /\ task = "tick"
  /\ now >= update_interval.deadline
  /\ update_interval' =
       [update_interval EXCEPT !.deadline = @ + update_interval.period]
  /\ task' = "returned"
  /\ UNCHANGED <<index, in_flight, now, starts, ends, last_refresh>>
  /\ UNCHANGED analyzerVars

\* update_interval.tick() completes: the deadline is reached or has passed;
\* the next tick is due one period after this one was. The loop has no exit:
\* it goes on to the next refresh.
Tick ==
  /\ task = "tick"
  /\ now >= update_interval.deadline
  /\ update_interval' =
       [update_interval EXCEPT !.deadline = @ + update_interval.period]
  /\ task' = "refresh"
  /\ UNCHANGED <<index, in_flight, now, starts, ends, last_refresh>>
  /\ UNCHANGED analyzerVars

\* The future of refresh_at_interval is dropped from outside while it is
\* suspended at one of its awaits. An offloaded job already running is not
\* stopped by that.
Cancel ==
  /\ task \in {"blocking", "tick"}
  /\ task' = "cancelled"
  /\ UNCHANGED <<index, update_interval, in_flight, now, starts, ends, last_refresh>>
  /\ UNCHANGED analyzerVars

\* The offloaded job of a cancelled task completes: nobody awaits it.
DetachedJobEnd(result) ==
  /\ task = "cancelled"
  /\ in_flight > 0
  /\ in_flight' = in_flight - 1
  /\ index' = RetrieveOrUpdate(index, result)
  /\ ends' = Append(ends, now)
  /\ last_refresh' = [result |-> result, index_before |-> index]
  /\ UNCHANGED <<update_interval, task, now, starts>>
  /\ UNCHANGED analyzerVars

\* Whether the periodic task can take a step now without waiting.
TaskRunnable ==
  \/ task = "refresh"
  \/ task = "tick" /\ now >= update_interval.deadline

\* Time passes while the task waits (for its start, the offloaded job or
\* the tick).
Advance ==
  /\ ~TaskRunnable
  /\ now < MaxTime
  /\ now' = now + 1
  /\ UNCHANGED <<index, update_interval, task, in_flight, starts, ends, last_refresh>>
  /\ UNCHANGED analyzerVars

\* ------------------------------------------------------------------ specifications

\* An analyzer is constructed and used; a managed index exists, its task not
\* started.
Init ==
  /\ \E crateDeps \in DeclaredChoices : \E db \in AdvisoryChoices :
       AnalyzerNew(crateDeps, db)
  /\ ManagedIndexNew(3)

Next ==
  \/ \E releases \in Batches(MaxProcessed - BagCardinality(processed)) :
       Process(releases)
  \/ \E rejects \in ParserChoices : Finalize(rejects)

Spec == Init /\ [][Next]_vars

\* A managed index is constructed and its periodic task run; an analyzer
\* exists and is not used.
IndexInit ==
  /\ \E period \in Periods : ManagedIndexNew(period)
  /\ AnalyzerNew(CHOOSE crateDeps \in DeclaredChoices : crateDeps.dev = NoDeps, None)

IndexNext ==
  \/ StartTask
  \/ RefreshBegin
  \/ \E result \in RefreshResults : RefreshEnd(result)
  \/ Tick
  \/ Cancel
  \/ \E result \in RefreshResults : DetachedJobEnd(result)
  \/ Advance

IndexSpec == IndexInit /\ [][IndexNext]_vars

\* The scheduling the runtime gives the periodic task: a task that can run
\* is run, the clock goes on, and (the proviso of the liveness claims) every
\* offloaded job completes. Starting and cancelling the task are up to the
\* caller and have no fairness.
IndexFairSpec ==
  /\ IndexSpec
  /\ WF_vars(RefreshBegin)
  /\ WF_vars(\E result \in RefreshResults : RefreshEnd(result))
  /\ WF_vars(Tick)
  /\ WF_vars(Advance)

\* ------------------------------------------------------------------ claims

\* The greatest version of a non-empty set, in semver order.
MaxVersion(S) == CHOOSE v \in S : \A w \in S : ~VersionLess(v, w)

MaxOption(S) == IF S = {} THEN None ELSE Some(MaxVersion(S))

\* The (kind, name) pairs of the tracked dependencies.
Tracked == {e \in Kinds \X Names : e[2] \in DOMAIN deps[e[1]]}

Dep(e) == deps[e[1]][e[2]]

PrevDep(e) == prev[e[1]][e[2]]

\* The releases handed to process() so far that were not yanked.
Kept == {r \in BagToSet(processed) : ~r.yanked}

\* The bag of releases handed to process() before its last call.
ProcessedBefore == processed (-) BagOfSeq(last.batch)

BatchIndices == DOMAIN last.batch

RECURSIVE SeqOfBag(_)
\* One sequence that lists the releases of a bag, each as often as it occurs.
SeqOfBag(bag) ==
  IF BagToSet(bag) = {} THEN <<>>
  ELSE LET r == CHOOSE x \in BagToSet(bag) : TRUE
       IN <<r>> \o SeqOfBag(bag (-) SetToBag({r}))

\* C1: in every reachable state, latest of every tracked dependency is the
\* maximum version among the processed releases of its name that are neither
\* yanked nor pre-release, whatever its constraint, and unset exactly when
\* there is none; pre-release versions never enter it.
LatestIsMaxStable ==
  \A e \in Tracked :
    Dep(e).latest =
      MaxOption({r.version : r \in {x \in Kept : x.name = e[2] /\ x.version.pre = ""}})

\* A dependency whose constraint matches nothing processed has latest set,
\* below a processed pre-release of its name.
LatestIsMaxStableWitness ==
  \E e \in Tracked :
    /\ IsSome(Dep(e).latest)
    /\ Dep(e).latest_that_matches = None
    /\ \E r \in Kept :
         /\ r.name = e[2]
         /\ r.version.pre # ""
         /\ VersionLess(Unwrap(Dep(e).latest), r.version)

\* C2: in every reachable state, latest_that_matches of every tracked
\* dependency is the maximum version among the processed, non-yanked releases
\* of its name whose version satisfies its constraint (pre-releases included
\* when the constraint admits them), and unset exactly when there is none.
LatestThatMatchesIsMaxMatching ==
  \A e \in Tracked :
    Dep(e).latest_that_matches =
      MaxOption({r.version :
                   r \in {x \in Kept : x.name = e[2]
                                         /\ Matches(Dep(e).required, x.version)}})

\* One dependency holds a matching version below its latest while another has
\* latest set and nothing matching.
LatestThatMatchesWitness ==
  /\ \E e \in Tracked :
       /\ IsSome(Dep(e).latest_that_matches)
       /\ IsSome(Dep(e).latest)
       /\ VersionLess(Unwrap(Dep(e).latest_that_matches), Unwrap(Dep(e).latest))
  /\ \E e \in Tracked :
       /\ Dep(e).latest_that_matches = None
       /\ IsSome(Dep(e).latest)

\* C3: a process call changes the state as the same call without its yanked
\* releases does; a call with yanked releases only changes nothing.
YankedLeavesStateUnchanged ==
  last.op = "process" =>
    /\ deps = ProcessLoop(prev, SelectSeq(last.batch, LAMBDA r : ~r.yanked))
    /\ (\A i \in BatchIndices : last.batch[i].yanked) => deps = prev

\* The last call held yanked releases only, one of them satisfying a tracked
\* constraint and greater than that dependency's latest.
YankedWitness ==
  /\ last.op = "process"
  /\ last.batch # <<>>
  /\ \A i \in BatchIndices : last.batch[i].yanked
  /\ \E i \in BatchIndices : \E e \in Tracked :
       /\ e[2] = last.batch[i].name
       /\ Matches(Dep(e).required, last.batch[i].version)
       /\ IsSome(Dep(e).latest)
       /\ VersionLess(Unwrap(Dep(e).latest), last.batch[i].version)

\* C4: while accumulating, the state depends only on the declared dependencies
\* and on the bag of releases handed over so far: it is the state one process
\* call on a fresh analyzer yields for one fixed listing of that bag, whatever
\* the order and the split into calls (empty calls included) the releases
\* arrived in.
OrderAndChunkingIrrelevant ==
  phase = "Accumulating" =>
    ProcessLoop(AnalyzedDependenciesNew(declared), SeqOfBag(processed)) = deps

\* Several calls were made, and the last one brought a release below the
\* latest already held for its name.
OrderWitness ==
  /\ phase = "Accumulating"
  /\ last.op = "process"
  /\ ProcessedBefore # EmptyBag
  /\ \E i \in BatchIndices : \E e \in Tracked :
       /\ ~last.batch[i].yanked
       /\ e[2] = last.batch[i].name
       /\ IsSome(PrevDep(e).latest)
       /\ VersionLess(last.batch[i].version, Unwrap(PrevDep(e).latest))
       /\ last.batch[i].version.pre = ""

\* C5: a process call whose releases were all handed to an earlier process
\* call changes no field of any tracked dependency.
ReingestIsNoOp ==
  (/\ last.op = "process"
   /\ \A i \in BatchIndices : BagIn(last.batch[i], ProcessedBefore))
    => deps = prev

\* The last call repeated releases seen before, one of them a kept release of
\* a tracked name that is below the latest held.
ReingestWitness ==
  /\ last.op = "process"
  /\ last.batch # <<>>
  /\ \A i \in BatchIndices : BagIn(last.batch[i], ProcessedBefore)
  /\ \E i \in BatchIndices : \E e \in Tracked :
       /\ ~last.batch[i].yanked
       /\ e[2] = last.batch[i].name
       /\ last.batch[i].version.pre = ""
       /\ VersionLess(last.batch[i].version, Unwrap(Dep(e).latest))

NotLowered(before, after) ==
  IsSome(before) => IsSome(after) /\ ~VersionLess(Unwrap(after), Unwrap(before))

\* C6: no operation replaces a set latest or latest_that_matches by a smaller
\* version or unsets it.
FieldsNeverDecrease ==
  \A e \in Tracked :
    /\ NotLowered(PrevDep(e).latest, Dep(e).latest)
    /\ NotLowered(PrevDep(e).latest_that_matches, Dep(e).latest_that_matches)

\* The last call raised both fields of a dependency that had them set.
FieldsRaisedWitness ==
  \E e \in Tracked :
    /\ IsSome(PrevDep(e).latest)
    /\ IsSome(PrevDep(e).latest_that_matches)
    /\ VersionLess(Unwrap(PrevDep(e).latest), Unwrap(Dep(e).latest))
    /\ VersionLess(Unwrap(PrevDep(e).latest_that_matches),
                   Unwrap(Dep(e).latest_that_matches))

\* What the advisory source answers for exactly (name, version).
Advisories(name, version) == DbQuery(Unwrap(advisory_db), Query(name, version))

\* C7: when finalize has returned, a dependency with latest_that_matches set
\* whose (name, latest_that_matches) query on the present advisory source has
\* a non-empty result holds that result as vulnerabilities; every other
\* dependency (source absent, result empty, nothing matching) holds none.
VulnerabilitiesAreQueryResult ==
  outcome = "returned" =>
    \A e \in Tracked :
      Dep(e).vulnerabilities =
        IF IsSome(advisory_db) /\ IsSome(Dep(e).latest_that_matches)
          THEN Advisories(e[2], Unwrap(Dep(e).latest_that_matches))
          ELSE <<>>

\* finalize returned a dependency with advisories for its latest_that_matches,
\* which is not its latest, and another with a matching version and none.
VulnerabilitiesWitness ==
  /\ outcome = "returned"
  /\ \E e \in Tracked :
       /\ Dep(e).vulnerabilities # <<>>
       /\ Dep(e).latest # Dep(e).latest_that_matches
  /\ \E e \in Tracked :
       /\ IsSome(Dep(e).latest_that_matches)
       /\ Dep(e).vulnerabilities = <<>>

\* C8: for an analyzer without advisory source, finalize always returns, and
\* returns every dependency with empty vulnerabilities.
NoAdvisorySourceNeverAborts ==
  (phase = "Finalized" /\ advisory_db = None) =>
    /\ outcome = "returned"
    /\ \A e \in Tracked : Dep(e).vulnerabilities = <<>>

\* C9: the analyzer starts Accumulating; process keeps it Accumulating;
\* finalize takes it from Accumulating to Finalized; once Finalized no step
\* changes anything, the returned dependencies included.
Lifecycle ==
  /\ phase = "Accumulating"
  /\ [][/\ phase = "Accumulating"
        /\ phase' \in {"Accumulating", "Finalized"}
        /\ last'.op = "process" => phase' = "Accumulating"
        /\ last'.op = "finalize" => phase' = "Finalized"]_analyzerVars

\* finalize has returned the dependencies after some releases were processed.
LifecycleWitness ==
  /\ phase = "Finalized"
  /\ outcome = "returned"
  /\ last.op = "finalize"
  /\ processed # EmptyBag

\* C10: with the index constructed and its task started at time 0 and every
\* refresh shorter than the interval, the k-th refresh (k = 0, 1, ...) starts
\* at k times the interval.
RefreshesAtMultiplesOfInterval ==
  (/\ starts # <<>>
   /\ starts[1] = 0
   /\ \A k \in DOMAIN ends : ends[k] - starts[k] < update_interval.period)
    => \A k \in DOMAIN starts : starts[k] = (k - 1) * update_interval.period

\* The positions of refresh_at_interval inside its loop.
LoopPositions == {"refresh", "blocking", "tick"}

Failed(result) == result \in {"error", "join_error"}

\* The clock of the model reaches the deadline of the pending tick.
TickWithinClock == update_interval.deadline <= MaxTime

\* C11: at most one offloaded retrieve_or_update is in flight; a refresh is
\* started, and a tick waited for, only when none is; refresh k+1 starts no
\* earlier than refresh k ended, so an unfinished refresh holds off the next
\* one however long it takes.
RefreshesSequential ==
  /\ in_flight <= 1
  /\ Len(starts) = Len(ends) + in_flight
  /\ task \in {"refresh", "tick"} => in_flight = 0
  /\ task = "blocking" => in_flight = 1
  /\ \A k \in DOMAIN starts :
       k > 1 => (k - 1) \in DOMAIN ends /\ ends[k - 1] <= starts[k]

\* A refresh that followed an earlier one has been in flight for two whole
\* intervals, and is still the only one started since.
HungRefreshWitness ==
  /\ task = "blocking"
  /\ in_flight = 1
  /\ Len(starts) >= 2
  /\ now - starts[Len(starts)] >= 2 * update_interval.period

\* C12: a failed refresh leaves the index at the revision it had before,
\* leaves the periodic task in its loop (nothing is returned or raised), and,
\* once it has led the task to wait for the tick, is followed by another
\* refresh (unless the task is cancelled from outside).
FailedRefreshDiscarded ==
  /\ [](Failed(last_refresh.result) =>
          /\ index = last_refresh.index_before
          /\ task \in LoopPositions \cup {"cancelled"})
  /\ (Failed(last_refresh.result) /\ task = "tick" /\ TickWithinClock)
       ~> (task = "blocking" \/ task = "cancelled")

\* After a successful refresh a failed one has completed, and a further
\* refresh is in flight.
FailedRefreshWitness ==
  /\ Failed(last_refresh.result)
  /\ index > 0
  /\ index = last_refresh.index_before
  /\ task = "blocking"
  /\ Len(starts) = Len(ends) + 1

\* C13: refresh_at_interval never returns: once started the task is at one
\* of its loop positions until it is cancelled from outside, a step nothing
\* else of the index takes part in; and with every offloaded job completing
\* and the clock going on, each loop position leads to the next, so refreshes
\* keep being started, whatever their results.
NeverReturnsKeepsRefreshing ==
  /\ [](task \in LoopPositions \cup {"created", "cancelled"})
  /\ [][(task \in LoopPositions /\ task' \notin LoopPositions) =>
          /\ task' = "cancelled"
          /\ UNCHANGED <<index, update_interval, in_flight, starts, ends>>]_vars
  /\ (task = "refresh") ~> (task = "blocking")
  /\ (task = "blocking") ~> (task = "tick" \/ task = "cancelled")
  /\ (task = "tick" /\ TickWithinClock) ~> (task = "refresh" \/ task = "cancelled")

\* Four refreshes have been started, one of them successful and the last
\* completed one the failure of the offloaded job, and the task is still
\* in its loop.
KeepsRefreshingWitness ==
  /\ Len(starts) >= 4
  /\ index > 0
  /\ last_refresh.result = "join_error"
  /\ task \in LoopPositions

\* The names of the non-yanked and yanked releases of the last process call.
BatchNames == {last.batch[i].name : i \in BatchIndices}

\* C14: a process call leaves the tracked names of every kind, and every
\* dependency's required and vulnerabilities, as they were; a dependency whose
\* name no release of the call bears is left whole; a call whose releases bear
\* untracked names only changes nothing, and the analyzer stays usable with
\* nothing raised.
ProcessChangesOnlyNamedVersions ==
  last.op = "process" =>
    /\ \A k \in Kinds : DOMAIN deps[k] = DOMAIN prev[k]
    /\ \A e \in Tracked :
         /\ Dep(e).required = PrevDep(e).required
         /\ Dep(e).vulnerabilities = PrevDep(e).vulnerabilities
         /\ e[2] \notin BatchNames => Dep(e) = PrevDep(e)
    /\ (\A n \in BatchNames : \A k \in Kinds : n \notin DOMAIN prev[k]) => deps = prev
    /\ phase = "Accumulating"
    /\ outcome = "none"

\* The last call handed over non-yanked releases of a name tracked in no kind,
\* to an analyzer that had taken up a version of a tracked name before.
UntrackedNameWitness ==
  /\ last.op = "process"
  /\ last.batch # <<>>
  /\ \A i \in BatchIndices :
       /\ ~last.batch[i].yanked
       /\ \A k \in Kinds : last.batch[i].name \notin DOMAIN deps[k]
  /\ \E e \in Tracked : IsSome(Dep(e).latest)

\* C15: the set finalize returns has, in each kind, the names of the set
\* built at construction, and every entry's required, latest and
\* latest_that_matches are what they were just before finalize.
FinalizeChangesOnlyVulnerabilities ==
  outcome = "returned" =>
    /\ \A k \in Kinds :
         /\ DOMAIN deps[k] = DOMAIN AnalyzedDependenciesNew(declared)[k]
         /\ DOMAIN deps[k] = DOMAIN prev[k]
    /\ \A e \in Tracked :
         /\ Dep(e).required = PrevDep(e).required
         /\ Dep(e).latest = PrevDep(e).latest
         /\ Dep(e).latest_that_matches = PrevDep(e).latest_that_matches

\* finalize returned a set that differs from the state before it, with an
\* entry that matched nothing next to one that holds versions.
FinalizeFrameWitness ==
  /\ outcome = "returned"
  /\ deps # prev
  /\ \E e \in Tracked : Dep(e).latest_that_matches = None
  /\ \E e \in Tracked :
       /\ IsSome(Dep(e).latest_that_matches)
       /\ IsSome(Dep(e).latest)

\* The declared dependencies of one kind alone, the other kinds empty.
OnlyKind(crateDeps, kind) ==
  [k \in Kinds |-> IF k = kind THEN crateDeps[k] ELSE NoDeps]

\* C16: while the analyzer accumulates, the entries of each kind are those of
\* an analyzer constructed with that kind's declared dependencies only and
\* handed the same releases.
KindsAreIndependent ==
  phase = "Accumulating" =>
    \A k \in Kinds :
      deps[k] =
        ProcessLoop(AnalyzedDependenciesNew(OnlyKind(declared, k)),
                    SeqOfBag(processed))[k]

\* One name is tracked in two kinds whose entries hold different
\* latest_that_matches, one of them set, after the same releases.
KindsWitness ==
  /\ phase = "Accumulating"
  /\ \E n \in Names : \E k1, k2 \in Kinds :
       /\ n \in DOMAIN deps[k1]
       /\ n \in DOMAIN deps[k2]
       /\ IsSome(deps[k1][n].latest_that_matches)
       /\ deps[k1][n].latest_that_matches # deps[k2][n].latest_that_matches
       /\ deps[k1][n].latest = deps[k2][n].latest

\* C17: when finalize has returned, a dependency without latest_that_matches
\* has no vulnerabilities, whatever its latest is and whatever the advisory
\* source holds for it.
NoMatchNoVulnerabilities ==
  outcome = "returned" =>
    \A e \in Tracked :
      Dep(e).latest_that_matches = None => Dep(e).vulnerabilities = <<>>

\* finalize returned a dependency that matched nothing, with latest set to a
\* version the present advisory source holds advisories for.
LatestNotQueriedWitness ==
  /\ outcome = "returned"
  /\ IsSome(advisory_db)
  /\ \E e \in Tracked :
       /\ Dep(e).latest_that_matches = None
       /\ IsSome(Dep(e).latest)
       /\ Advisories(e[2], Unwrap(Dep(e).latest)) # <<>>

RECURSIVE RaiseAll(_, _)
\* A field raised by each version of a sequence in turn.
RaiseAll(current, versions) ==
  IF versions = <<>> THEN current
  ELSE RaiseAll(RaiseOption(current, Head(versions)), Tail(versions))

\* The versions of the kept releases of a batch that bear the name.
VersionsOf(batch, name) ==
  LET kept == SelectSeq(batch, LAMBDA r : ~r.yanked /\ r.name = name)
  IN [i \in DOMAIN kept |-> kept[i].version]

\* C18: after a process call each field of a dependency is its own former
\* value raised by the versions that pass its own test: latest_that_matches
\* by those satisfying the constraint, latest by those that are no
\* pre-release; neither depends on the other field.
UpdatesAreIndependent ==
  last.op = "process" =>
    \A e \in Tracked :
      LET versions == VersionsOf(last.batch, e[2]) IN
        /\ Dep(e).latest_that_matches =
             RaiseAll(PrevDep(e).latest_that_matches,
                      SelectSeq(versions, LAMBDA v : Matches(PrevDep(e).required, v)))
        /\ Dep(e).latest =
             RaiseAll(PrevDep(e).latest,
                      SelectSeq(versions, LAMBDA v : v.pre = ""))

\* After one call: a dependency whose latest_that_matches alone was raised,
\* above its latest; one with latest_that_matches set and latest unset; one
\* with latest alone set; one with both set to the same version; and one a
\* kept release of its name left as it was.
NoClampingWitness ==
  /\ last.op = "process"
  /\ \E e \in Tracked :
       /\ IsSome(Dep(e).latest_that_matches)
       /\ IsSome(Dep(e).latest)
       /\ VersionLess(Unwrap(Dep(e).latest), Unwrap(Dep(e).latest_that_matches))
       /\ Dep(e).latest = PrevDep(e).latest
       /\ Dep(e).latest_that_matches # PrevDep(e).latest_that_matches
  /\ \E e \in Tracked :
       /\ IsSome(Dep(e).latest_that_matches)
       /\ Dep(e).latest = None
  /\ \E e \in Tracked :
       /\ Dep(e).latest_that_matches = None
       /\ IsSome(Dep(e).latest)
  /\ \E e \in Tracked :
       /\ IsSome(Dep(e).latest)
       /\ Dep(e).latest_that_matches = Dep(e).latest
  /\ \E e \in Tracked :
       /\ VersionsOf(last.batch, e[2]) # <<>>
       /\ Dep(e) = PrevDep(e)

\* Some dependency that finalize builds a query for (latest_that_matches set
\* before the call) has a name or a version text the parsers reject.
Unconvertible ==
  \E e \in {x \in Kinds \X Names : x[2] \in DOMAIN prev[x[1]]} :
    /\ IsSome(PrevDep(e).latest_that_matches)
    /\ \/ e[2] \in last.rejects.names
       \/ VersionToString(Unwrap(PrevDep(e).latest_that_matches)) \in last.rejects.versions

\* C19: finalize panics, returning no set, exactly when some dependency with
\* latest_that_matches set has a name or version the query cannot be built
\* from; it returns only when every such dependency was converted.
UnconvertibleIsFatal ==
  phase = "Finalized" =>
    /\ Unconvertible => outcome = "panicked"
    /\ outcome = "returned" => ~Unconvertible
    /\ outcome \in {"returned", "panicked"}

\* finalize panicked on a dependency whose version text is rejected, after
\* an earlier dependency in iteration order was converted.
FatalWitness ==
  /\ outcome = "panicked"
  /\ Unconvertible
  /\ last.rejects.names = {}
  /\ \E e \in Tracked :
       /\ IsSome(PrevDep(e).latest_that_matches)
       /\ VersionToString(Unwrap(PrevDep(e).latest_that_matches)) \notin last.rejects.versions

====
